---- MODULE Spec2Model ----
(***************************************************************************)
(* BeethovenLab generation engine (src/generation_engine.py).              *)
(*                                                                         *)
(* Conventions of the model                                                *)
(*   - a Python dict / defaultdict is a function whose DOMAIN is the set   *)
(*     of keys that are present; <<>> is the empty dict;                   *)
(*   - a tuple or list is a sequence; a pitch is its MIDI number;          *)
(*   - a duration (quarterLength) is an integer number of 1/64 quarter     *)
(*     beats: 1.0 is 64, 0.5 is 32, 0.125 is 8;                            *)
(*   - tension_level is held in tenths: 0.7 is 7;                          *)
(*   - a call that raises leaves exc = "IndexError" in its outcome;        *)
(*   - a random draw is a nondeterministic choice over the candidates that *)
(*     have non-zero probability; the random source is an input, and the   *)
(*     variable random_sample names the sample of it a behaviour explores: *)
(*     "all" candidates of every draw of pitches, rhythms, chords and      *)
(*     inversions, or only the "low" / "high" end of the candidate list.   *)
(*     Which branch random.random() takes, which technique, motif and      *)
(*     dynamic are chosen is never sampled: every value is explored;       *)
(*   - 'vii' stands for the chord symbol of the diminished seventh degree; *)
(*   - the source file does not compile as it stands (the class statement  *)
(*     of BeethovenComposerAdvanced at line 543 and the body of            *)
(*     _train_default_patterns are mis-indented); the model follows the    *)
(*     method bodies as they are written, each under the class its name    *)
(*     and its uses of self assign it to.                                  *)
(***************************************************************************)
EXTENDS Integers, Sequences, FiniteSets, Bags, TLC

VARIABLES
    \* the composer and its parts
    markov_model,    \* MarkovChainModel: [order, transitions, rhythm_transitions]
    context,         \* MusicalContext
    \* the call in progress
    pc,              \* position of the call in progress / the operation that acted last
    result,          \* outcome of the last call: what it returned or raised
    query,           \* the state last given to generate_next_pitch
    random_sample,   \* the sample of the random source the behaviour draws from
    \* frame of compose
    total_measures, form, structure, primary_motif,
    sec,             \* 1-based index of section_plan in the loop over structure
    current_measure,
    right_hand,      \* measure numbers of the part "Piano Right Hand"
    left_hand,       \* measure numbers of the part "Piano Left Hand"
    \* frame of _generate_section
    harmony,
    m,               \* loop value of the right-hand, then of the left-hand loop
    right_measures,  \* per measure: [number, dynamic], dynamic "" when none
    left_measures,   \* per measure: [number, quarterLengths of its elements]
    melody_notes,    \* the notes of the melody measure generated last
    \* frame of generate_progression
    progression,     \* the list built so far
    position,        \* the loop value i
    requested,       \* the argument length
    \* history of the training calls
    trained,         \* bag of the sequences given to train_pitch
    trained_rhythm,  \* bag of the sequences given to train_rhythm
    \* KernAnalyzer (src/kern_analyzer.py)
    patterns,        \* self.patterns of the analyzer that saves
    saved_file,      \* the file save_analysis writes
    loaded_patterns  \* self.patterns of the analyzer that loads

composer_vars == <<markov_model, context>>
analyzer_vars == <<patterns, saved_file, loaded_patterns>>
call_vars == <<pc, result, query, random_sample>>
compose_vars == <<total_measures, form, structure, primary_motif, sec,
                  current_measure, right_hand, left_hand>>
section_vars == <<harmony, m, right_measures, left_measures, melody_notes>>
progression_vars == <<progression, position, requested>>
history_vars == <<trained, trained_rhythm>>

vars == <<composer_vars, call_vars, compose_vars, section_vars,
          progression_vars, history_vars, analyzer_vars>>

----------------------------------------------------------------------------
(* Bounds of the model *)

MaxOrder == 2        \* orders 1..MaxOrder of a MarkovChainModel
MaxTrainCalls == 2   \* training calls in one behaviour
MaxMeasures == 14    \* total_measures of compose ranges over 1..MaxMeasures
MaxLength == 6       \* length of generate_progression ranges over 0..MaxLength
MaxTotalMeasures == 64    \* total_measures of plan_structure ranges over 1..MaxTotalMeasures
MaxSectionMeasures == 5   \* measures of a section generated on its own

(* Program constants *)

DequeMaxLen == 8     \* deque(maxlen=8)
PitchLow == 48       \* C3
PitchHigh == 84      \* C6

----------------------------------------------------------------------------
(* Small helpers *)

Abs(x) == IF x < 0 THEN -x ELSE x

Last(s) == s[Len(s)]

RECURSIVE SumOver(_, _)
SumOver(f, S) ==
    IF S = {} THEN 0
    ELSE LET k == CHOOSE k \in S : TRUE IN f[k] + SumOver(f, S \ {k})

\* sum(d.values())
SumValues(d) == SumOver(d, DOMAIN d)

----------------------------------------------------------------------------
(* MusicalContext *)

\* [p.midi % 12 for p in key.pitches] as a set
ScaleMidi(key) ==
    IF key = "C" THEN {0, 2, 4, 5, 7, 9, 11} ELSE {}

MusicalContext_init ==
    [current_key     |-> "C",
     dynamic_level   |-> "mf",
     section_type    |-> "exposition",
     recent_pitches  |-> <<>>,
     harmonic_rhythm |-> 64,
     tension_level   |-> 5]

\* Faulty variant of DequeAppend: a full deque drops the new entry
DequeAppend_keep_oldest(d, x) ==
    IF Len(d) >= DequeMaxLen THEN d ELSE Append(d, x)

\* deque(maxlen=8).append
DequeAppend(d, x) ==
    LET a == Append(d, x)
    IN IF Len(a) > DequeMaxLen THEN SubSeq(a, Len(a) - DequeMaxLen + 1, Len(a))
       ELSE a

update_pitch_history(ctx, pitch) ==
    [ctx EXCEPT !.recent_pitches = DequeAppend(ctx.recent_pitches, pitch)]

get_pitch_tendency(ctx) ==
    LET rp == ctx.recent_pitches
    IN IF Len(rp) < 3 THEN "neutral"
       ELSE LET recent == SubSeq(rp, Len(rp) - 2, Len(rp))
            IN IF recent[3] > recent[1] + 2 THEN "ascending"
               ELSE IF recent[3] < recent[1] - 2 THEN "descending"
               ELSE "stable"

----------------------------------------------------------------------------
(* MarkovChainModel *)

MarkovChainModel_init(order) ==
    [order |-> order, transitions |-> <<>>, rhythm_transitions |-> <<>>]

\* d[k] on a defaultdict: the dict afterwards (a missing key is inserted)
DefaultDictAfterGet(d, k, default) ==
    IF k \in DOMAIN d THEN d ELSE d @@ (k :> default)

\* Faulty variant of IncrementCount: table[state][next] = 1
IncrementCount_overwrite(table, state, next) ==
    LET t1 == DefaultDictAfterGet(table, state, <<>>)
        row == DefaultDictAfterGet(t1[state], next, 0)
    IN [t1 EXCEPT ![state] = [row EXCEPT ![next] = 1]]

\* table[state][next] += 1 on a defaultdict of defaultdict(int)
IncrementCount(table, state, next) ==
    LET t1 == DefaultDictAfterGet(table, state, <<>>)
        row == DefaultDictAfterGet(t1[state], next, 0)
    IN [t1 EXCEPT ![state] = [row EXCEPT ![next] = row[next] + 1]]

\* for i in range(len(sequence) - order), from iteration i on
RECURSIVE TrainLoop(_, _, _, _)
TrainLoop(table, sequence, order, i) ==
    IF i >= Len(sequence) - order THEN table
    ELSE LET state == SubSeq(sequence, i + 1, i + order)
             next == sequence[i + order + 1]
         IN TrainLoop(IncrementCount(table, state, next), sequence, order, i + 1)

train_pitch(mm, pitch_sequence) ==
    [mm EXCEPT !.transitions = TrainLoop(mm.transitions, pitch_sequence, mm.order, 0)]

train_rhythm(mm, rhythm_sequence) ==
    [mm EXCEPT !.rhythm_transitions =
        TrainLoop(mm.rhythm_transitions, rhythm_sequence, mm.order, 0)]

\* Outcome of a call that returns v, and of one that raises
Returned(v) == [exc |-> "none", value |-> v]
Raised(e) == [exc |-> e, value |-> 0]

\* state[-1]
LastOf(state) == IF Len(state) = 0 THEN Raised("IndexError") ELSE Returned(Last(state))

\* Faulty variant of ContextualCandidates: the range test 48 <= new_pitch <= 84
\* is left out
ContextualCandidates_unranged(last_pitch, ctx) ==
    {p \in {last_pitch + offset : offset \in -7..7} :
        (p % 12) \in ScaleMidi(ctx.current_key)}

\* The candidate list built by the offset loop of _generate_contextual_pitch
ContextualCandidates(last_pitch, ctx) ==
    {last_pitch + offset : offset \in -7..7} \cap
    {p \in PitchLow..PitchHigh : (p % 12) \in ScaleMidi(ctx.current_key)}

\* The set of outcomes of _generate_contextual_pitch
generate_contextual_pitch(state, ctx) ==
    IF Len(state) = 0 THEN {Raised("IndexError")}
    ELSE LET last_pitch == Last(state)
             candidates == ContextualCandidates(last_pitch, ctx)
             tendency == get_pitch_tendency(ctx)
             kept == IF tendency = "ascending"
                        THEN {p \in candidates : p >= last_pitch}
                     ELSE IF tendency = "descending"
                        THEN {p \in candidates : p <= last_pitch}
                     ELSE candidates
         IN IF candidates = {} THEN {Returned(last_pitch)}
            ELSE IF kept = {} THEN {Returned(last_pitch)}
            ELSE {Returned(p) : p \in kept}

\* The weight _adjust_pitch_probabilities gives one candidate, in 1/100
AdjustedWeight(pitch, count, ctx) ==
    LET inscale == (pitch % 12) \in ScaleMidi(ctx.current_key)
        w1 == IF inscale THEN 150 * count ELSE 100 * count
        dist == Abs(pitch - Last(ctx.recent_pitches))
    IN IF ctx.tension_level > 7
          THEN (IF dist > 4 THEN (w1 * 12) \div 10 ELSE w1)
          ELSE (IF dist <= 2 THEN (w1 * 13) \div 10 ELSE w1)

\* _adjust_pitch_probabilities: list(context.recent_pitches)[-1] raises
\* IndexError on an empty history as soon as there is one candidate
adjust_pitch_probabilities(candidates, ctx) ==
    IF DOMAIN candidates # {} /\ Len(ctx.recent_pitches) = 0
       THEN Raised("IndexError")
    ELSE Returned([p \in DOMAIN candidates |-> AdjustedWeight(p, candidates[p], ctx)])

\* Faulty variant of generate_next_pitch: the table is never consulted
generate_next_pitch_untrained(mm, current_state, ctx) ==
    generate_contextual_pitch(current_state, ctx)

\* The set of outcomes of generate_next_pitch
generate_next_pitch(mm, current_state, ctx) ==
    IF current_state \notin DOMAIN mm.transitions
       THEN generate_contextual_pitch(current_state, ctx)
    ELSE LET candidates == mm.transitions[current_state]
             adjusted == adjust_pitch_probabilities(candidates, ctx)
         IN IF adjusted.exc # "none" THEN {adjusted}
            ELSE IF SumValues(adjusted.value) = 0 THEN {LastOf(current_state)}
            ELSE {Returned(p) : p \in {q \in DOMAIN adjusted.value : adjusted.value[q] > 0}}

\* Faulty variant of generate_next_pitch_table: the defaultdict is indexed
\* before the membership test
generate_next_pitch_table_indexed(transitions, current_state) ==
    DefaultDictAfterGet(transitions, current_state, <<>>)

\* self.transitions after generate_next_pitch: the table is indexed only
\* behind the membership test
generate_next_pitch_table(transitions, current_state) ==
    IF current_state \notin DOMAIN transitions THEN transitions
    ELSE DefaultDictAfterGet(transitions, current_state, <<>>)

\* The sample of a random draw over the candidate set S that a behaviour
\* explores: every candidate, the two extreme ones, or one of them
Sample(S, draw) ==
    IF draw = "all" \/ S = {} THEN S
    ELSE LET lo == CHOOSE x \in S : \A y \in S : x <= y
             hi == CHOOSE x \in S : \A y \in S : x >= y
         IN CASE draw = "low" -> {lo}
              [] draw = "high" -> {hi}
              [] OTHER -> {lo, hi}

\* The outcomes of a call, with the returned values sampled
SampleOutcomes(O, draw) ==
    {o \in O : o.exc # "none"} \cup
    {Returned(v) : v \in Sample({o.value : o \in {x \in O : x.exc = "none"}}, draw)}

\* Faulty variant of next_rhythm: the rhythm table is never consulted
next_rhythm_untrained(mm, rhythm_state) == {32, 64, 128}

\* The rhythms _generate_markov_melody may pick after rhythm_state
next_rhythm(mm, rhythm_state) ==
    IF rhythm_state \in DOMAIN mm.rhythm_transitions
       THEN LET rhythm_candidates == mm.rhythm_transitions[rhythm_state]
            IN IF DOMAIN rhythm_candidates # {}
                  THEN {r \in DOMAIN rhythm_candidates : rhythm_candidates[r] > 0}
                  ELSE {64}
       ELSE {32, 64, 128}

\* self.rhythm_transitions after the lookup: indexed behind the membership test
next_rhythm_table(rhythm_transitions, rhythm_state) ==
    IF rhythm_state \in DOMAIN rhythm_transitions
       THEN DefaultDictAfterGet(rhythm_transitions, rhythm_state, <<>>)
       ELSE rhythm_transitions

Note(pitch, quarterLength) == [pitch |-> pitch, quarterLength |-> quarterLength]

\* The initial state of _generate_markov_melody
InitialState(ctx) ==
    LET rp == ctx.recent_pitches
    IN IF Len(rp) >= 2 THEN SubSeq(rp, Len(rp) - 1, Len(rp)) ELSE <<60, 62>>

\* The for loop of _generate_markov_melody with `remaining` iterations left:
\* the set of outcomes [exc, notes, context, markov_model]
RECURSIVE MarkovMelodyLoop(_, _, _, _, _, _, _)
MarkovMelodyLoop(mm, ctx, state, rhythm_state, notes, remaining, draw) ==
    IF remaining = 0
       THEN {[exc |-> "none", notes |-> notes, context |-> ctx, markov_model |-> mm]}
    ELSE LET mm1 == [mm EXCEPT !.transitions =
                        generate_next_pitch_table(mm.transitions, state)]
             mm2 == [mm1 EXCEPT !.rhythm_transitions =
                        next_rhythm_table(mm1.rhythm_transitions, rhythm_state)]
         IN UNION {
              IF o.exc # "none"
                 THEN {[exc |-> o.exc, notes |-> notes, context |-> ctx,
                        markov_model |-> mm1]}
              ELSE UNION {
                     MarkovMelodyLoop(mm2, update_pitch_history(ctx, o.value),
                                      <<state[2], o.value>>, <<rhythm_state[2], r>>,
                                      Append(notes, Note(o.value, r)),
                                      remaining - 1, draw)
                     : r \in Sample(next_rhythm(mm1, rhythm_state), draw)}
              : o \in SampleOutcomes(generate_next_pitch(mm, state, ctx), draw)}

generate_markov_melody(mm, ctx, length, draw) ==
    MarkovMelodyLoop(mm, ctx, InitialState(ctx), <<64, 64>>, <<>>, length, draw)

----------------------------------------------------------------------------
(* MotivicCell and MotivicDeveloper.  importance is held in 1/10000.       *)

MotivicCell(intervals, rhythm, contour, importance) ==
    [intervals |-> intervals, rhythm |-> rhythm,
     contour |-> contour, importance |-> importance]

\* The patterns of create_primary_motif
PrimaryPatterns ==
    {MotivicCell(<<0, 0, 0, -4>>, <<32, 32, 32, 96>>, "descending", 10000),
     MotivicCell(<<2, 2, 1, 2, 2, 1, 2>>, <<32, 32, 32, 32, 32, 32, 32>>, "arch", 9000),
     MotivicCell(<<0, 0, 0>>, <<32, 32, 32>>, "stable", 8000),
     MotivicCell(<<-1, -2, -2, 7>>, <<16, 16, 16, 48>>, "mixed", 9500)}

Reverse(s) == [k \in 1..Len(s) |-> s[Len(s) + 1 - k]]

Scale(importance, percent) == (importance * percent) \div 100

transpose(motif) ==
    MotivicCell(motif.intervals, motif.rhythm, motif.contour, Scale(motif.importance, 90))

InvertContour(contour) ==
    CASE contour = "ascending" -> "descending"
      [] contour = "descending" -> "ascending"
      [] contour = "arch" -> "inverted_arch"
      [] contour = "inverted_arch" -> "arch"
      [] contour = "stable" -> "stable"
      [] OTHER -> "mixed"

\* An inversion that turned every interval downwards
invert_downwards(motif) ==
    MotivicCell([k \in 1..Len(motif.intervals) |-> -Abs(motif.intervals[k])],
                motif.rhythm, InvertContour(motif.contour), Scale(motif.importance, 85))

invert(motif) ==
    MotivicCell([k \in 1..Len(motif.intervals) |-> -motif.intervals[k]],
                motif.rhythm, InvertContour(motif.contour), Scale(motif.importance, 85))

\* s[-1:] + s[:-1] of a list
Rotate(s) == IF s = <<>> THEN s ELSE <<s[Len(s)]>> \o SubSeq(s, 1, Len(s) - 1)

\* A retrograde that moved the last element to the front
retrograde_rotated(motif) ==
    MotivicCell(Rotate(motif.intervals), Rotate(motif.rhythm), "mixed",
                Scale(motif.importance, 80))

retrograde(motif) ==
    MotivicCell(Reverse(motif.intervals), Reverse(motif.rhythm), "mixed",
                Scale(motif.importance, 80))

\* An augmentation by a dot, r * 1.5
augment_dotted(motif) ==
    MotivicCell(motif.intervals, [k \in 1..Len(motif.rhythm) |-> (motif.rhythm[k] * 3) \div 2],
                motif.contour, Scale(motif.importance, 90))

augment(motif) ==
    MotivicCell(motif.intervals, [k \in 1..Len(motif.rhythm) |-> motif.rhythm[k] * 2],
                motif.contour, Scale(motif.importance, 90))

\* r * 0.5 halves a float exactly; a duration of 1/64 quarter, the unit here,
\* is halved by no run within MaxDevelopments, so the division is exact too
diminish(motif) ==
    MotivicCell(motif.intervals, [k \in 1..Len(motif.rhythm) |-> motif.rhythm[k] \div 2],
                motif.contour, Scale(motif.importance, 90))

\* s[:n] and s[n:] of a list
Prefix(s, n) == SubSeq(s, 1, IF n < Len(s) THEN n ELSE Len(s))
Suffix(s, n) == SubSeq(s, (IF n < Len(s) THEN n ELSE Len(s)) + 1, Len(s))

\* Faulty variant of fragment: cells of one or two intervals are halved too
fragment_unguarded(motif, first_half) ==
    LET length == Len(motif.intervals) \div 2
    IN IF first_half
          THEN MotivicCell(Prefix(motif.intervals, length), Prefix(motif.rhythm, length),
                           "fragment", Scale(motif.importance, 70))
          ELSE MotivicCell(Suffix(motif.intervals, length), Suffix(motif.rhythm, length),
                           "fragment", Scale(motif.importance, 70))

\* fragment: the first half when first_half, else the second half
fragment(motif, first_half) ==
    IF Len(motif.intervals) <= 2 THEN motif
    ELSE LET length == Len(motif.intervals) \div 2
         IN IF first_half
               THEN MotivicCell(Prefix(motif.intervals, length), Prefix(motif.rhythm, length),
                                "fragment", Scale(motif.importance, 70))
               ELSE MotivicCell(Suffix(motif.intervals, length), Suffix(motif.rhythm, length),
                                "fragment", Scale(motif.importance, 70))

RECURSIVE Repeat(_, _)
Repeat(s, n) == IF n = 0 THEN <<>> ELSE s \o Repeat(s, n - 1)

\* sequence, with `repetitions` drawn from randint(2, 3)
sequence(motif, repetitions) ==
    MotivicCell(Repeat(motif.intervals, repetitions), Repeat(motif.rhythm, repetitions),
                "sequence", motif.importance)

Techniques ==
    {"transpose", "invert", "retrograde", "augment", "diminish", "fragment", "sequence"}

\* The cells one technique may return
ApplyTechnique(name, motif) ==
    CASE name = "transpose" -> {transpose(motif)}
      [] name = "invert" -> {invert(motif)}
      [] name = "retrograde" -> {retrograde(motif)}
      [] name = "augment" -> {augment(motif)}
      [] name = "diminish" -> {diminish(motif)}
      [] name = "fragment" -> {fragment(motif, TRUE), fragment(motif, FALSE)}
      [] OTHER -> {sequence(motif, 2), sequence(motif, 3)}

\* The cells develop_motif(motif, technique) may return; technique is "" for None
develop_motif(motif, technique) ==
    IF technique \in Techniques THEN ApplyTechnique(technique, motif)
    ELSE UNION {ApplyTechnique(name, motif) : name \in Techniques}

\* A retrograde that reversed the lists of its argument in place
develop_motif_input_reversed(motif, technique) ==
    IF technique = "retrograde"
       THEN [motif EXCEPT !.intervals = Reverse(@), !.rhythm = Reverse(@)]
       ELSE motif

\* The fields of the cell passed to develop_motif(motif, technique) once the
\* call has returned.  The techniques read motif.intervals and motif.rhythm
\* through .copy(), reversed(), comprehensions, slices and extend on a new
\* list, and pass motif.contour and motif.importance to a new MotivicCell;
\* none assigns to a field of motif or changes its lists.
develop_motif_input(motif, technique) == motif

\* The range restriction of _realize_motif: one octave shift at most
RangeLimit(pitch) ==
    IF pitch < PitchLow THEN pitch + 12
    ELSE IF pitch > PitchHigh THEN pitch - 12
    ELSE pitch

\* for interval, rhythm in zip(motif.intervals, motif.rhythm), from pair k on
RECURSIVE RealizeLoop(_, _, _, _, _)
RealizeLoop(motif, k, current_pitch, notes, ctx) ==
    IF k > Len(motif.intervals) \/ k > Len(motif.rhythm)
       THEN [notes |-> notes, context |-> ctx]
    ELSE LET p == RangeLimit(current_pitch + motif.intervals[k])
         IN RealizeLoop(motif, k + 1, p, Append(notes, Note(p, motif.rhythm[k])),
                        update_pitch_history(ctx, p))

realize_motif(motif, ctx) ==
    LET start_pitch == IF Len(ctx.recent_pitches) > 0 THEN Last(ctx.recent_pitches) ELSE 60
    IN RealizeLoop(motif, 1, start_pitch, <<>>, ctx)

----------------------------------------------------------------------------
(* HarmonicGenerator.  A rule row lists (chord, probability in 1/100) in   *)
(* the order of the dict.                                                  *)

Rule(chord, prob) == [chord |-> chord, prob |-> prob]

\* _create_progression_rules
progression_rules ==
    [I    |-> <<Rule("V", 30), Rule("IV", 25), Rule("vi", 20), Rule("ii", 15), Rule("iii", 10)>>,
     ii   |-> <<Rule("V", 60), Rule("vii", 20), Rule("IV", 20)>>,
     iii  |-> <<Rule("vi", 40), Rule("IV", 30), Rule("I", 30)>>,
     IV   |-> <<Rule("V", 40), Rule("I", 30), Rule("ii", 20), Rule("vii", 10)>>,
     V    |-> <<Rule("I", 60), Rule("vi", 25), Rule("IV", 15)>>,
     vi   |-> <<Rule("ii", 35), Rule("IV", 35), Rule("V", 30)>>,
     vii  |-> <<Rule("I", 70), Rule("V", 30)>>]

\* The sample of a random choice over the list s
SampleSeq(s, draw) ==
    IF Len(s) = 0 THEN {}
    ELSE CASE draw = "all" -> {s[k] : k \in 1..Len(s)}
           [] draw = "low" -> {s[1]}
           [] draw = "high" -> {s[Len(s)]}
           [] OTHER -> {s[1], s[Len(s)]}

is_cadence_point(pos, total_length) ==
    pos % 16 = 15 \/ pos >= total_length - 3

\* The list _select_cadence chooses from
select_cadence(ctx) ==
    IF ctx.section_type = "exposition"
       THEN <<(<<"ii", "V", "I">>), (<<"IV", "V", "I">>)>>
    ELSE IF ctx.section_type = "development"
       THEN <<(<<"ii", "V", "vi">>), (<<"IV", "V", "vi">>), (<<"V", "vi">>)>>
    ELSE <<(<<"ii", "V", "I">>)>>

\* adjusted_candidates of _select_next_chord, probabilities in 1/1000
AdjustedRules(current, ctx) ==
    LET candidates == progression_rules[current]
    IN [k \in 1..Len(candidates) |->
          LET c == candidates[k]
          IN Rule(c.chord,
                  IF ctx.tension_level > 7 /\ c.chord \in {"V", "vii"}
                     THEN c.prob * 13
                  ELSE IF ctx.tension_level < 3 /\ c.chord \in {"I", "vi"}
                     THEN c.prob * 12
                  ELSE c.prob * 10)]

\* Faulty variant of select_next_chord: the answer for a chord without a rule
\* is given for every chord
select_next_chord_fallback(current, ctx, draw) == {"I"}

\* The chords _select_next_chord may return
select_next_chord(current, ctx, draw) ==
    IF current \notin DOMAIN progression_rules THEN {"I"}
    ELSE LET adjusted == AdjustedRules(current, ctx)
             possible == SelectSeq(adjusted, LAMBDA c : c.prob > 0)
         IN {c.chord : c \in SampleSeq(possible, draw)}

\* s[1:] of a list
Tail1(s) == IF Len(s) = 0 THEN <<>> ELSE Tail(s)

\* Faulty variant of ProgressionIteration: the continue statement ends every
\* iteration at a cadence point, also when the cadence did not fit
ProgressionIteration_continue(prog, i, len, ctx, draw) ==
    IF is_cadence_point(i, len)
       THEN UNION {IF Len(cadence) <= len - i
                      THEN {prog \o Tail1(cadence)}
                      ELSE {prog}
                   : cadence \in SampleSeq(select_cadence(ctx), draw)}
       ELSE {Append(prog, c) : c \in select_next_chord(Last(prog), ctx, draw)}

\* One iteration of the for loop of generate_progression, for loop value i:
\* the lists it may leave in `progression` (here prog).  Assigning to i inside
\* the body does not change the values range(1, length) yields.
ProgressionIteration(prog, i, len, ctx, draw) ==
    LET current_chord == Last(prog)
        by_rule == {Append(prog, c) : c \in select_next_chord(current_chord, ctx, draw)}
    IN IF is_cadence_point(i, len)
          THEN UNION {IF Len(cadence) <= len - i
                         THEN {prog \o Tail1(cadence)}
                         ELSE by_rule
                      : cadence \in SampleSeq(select_cadence(ctx), draw)}
          ELSE by_rule

\* The for loop of generate_progression from loop value i on
RECURSIVE ProgressionLoop(_, _, _, _, _)
ProgressionLoop(prog, i, len, ctx, draw) ==
    IF i >= len THEN {prog}
    ELSE UNION {ProgressionLoop(p, i + 1, len, ctx, draw)
                : p \in ProgressionIteration(prog, i, len, ctx, draw)}

\* The progressions generate_progression(length, context) may return
generate_progression(len, ctx, draw) ==
    ProgressionLoop(<<"I">>, 1, len, ctx, draw)

root_map ==
    [I |-> 0, ii |-> 2, iii |-> 4, IV |-> 5, V |-> 7, vi |-> 9, vii |-> 11]

\* context.current_key.tonic.midi
TonicMidi(key) == IF key = "C" THEN 60 ELSE 0

\* The while loops of realize_harmony that move the chord by octaves
RECURSIVE OctaveAdjust(_)
OctaveAdjust(pitches) ==
    IF pitches[1] < 36 THEN OctaveAdjust([k \in 1..Len(pitches) |-> pitches[k] + 12])
    ELSE IF pitches[1] > 48 THEN OctaveAdjust([k \in 1..Len(pitches) |-> pitches[k] - 12])
    ELSE pitches

\* The strings s with s.lower() in ['ii', 'iii', 'vi']
MinorSpellings ==
    {"ii", "iI", "Ii", "II", "vi", "vI", "Vi", "VI",
     "iii", "iiI", "iIi", "iII", "Iii", "IiI", "IIi", "III"}

\* realize_harmony with the drawn inversion: [pitches, quarterLength]
realize_harmony(chord_symbol, ctx, inversion) ==
    LET root == TonicMidi(ctx.current_key) +
                (IF chord_symbol \in DOMAIN root_map THEN root_map[chord_symbol] ELSE 0)
        triad == IF chord_symbol = "vii" THEN <<root, root + 3, root + 6>>
                 ELSE IF chord_symbol \in MinorSpellings
                    THEN <<root, root + 3, root + 7>>
                 ELSE <<root, root + 4, root + 7>>
        placed == OctaveAdjust(triad)
        pitches == IF inversion > 0
                      THEN Suffix(placed, inversion) \o
                           [k \in 1..inversion |-> placed[k] + 12]
                      ELSE placed
    IN [pitches |-> pitches, quarterLength |-> ctx.harmonic_rhythm]

\* The values random.choice([0, 0, 0, 1, 1, 2]) may return
Inversions == {0, 1, 2}

\* The inversions that `n` successive calls of realize_harmony may draw
InversionDraws(n, draw) == [1..n -> Sample(Inversions, draw)]

----------------------------------------------------------------------------
(* StructureGenerator.  proportion is held in tenths.                      *)

Subsection(name, key, character) == [name |-> name, key |-> key, character |-> character]

\* _create_sonata_template
sonata_template ==
    <<[name |-> "exposition", proportion |-> 3,
       subsections |-> <<Subsection("first_theme", "I", "energetic"),
                         Subsection("transition", "I->V", "modulatory"),
                         Subsection("second_theme", "V", "lyrical"),
                         Subsection("closing", "V", "conclusive")>>],
      [name |-> "development", proportion |-> 4,
       subsections |-> <<Subsection("fragmentation", "various", "unstable"),
                         Subsection("sequence", "various", "progressive"),
                         Subsection("climax", "various", "intense"),
                         Subsection("retransition", "V/I", "preparatory")>>],
      [name |-> "recapitulation", proportion |-> 3,
       subsections |-> <<Subsection("first_theme", "I", "energetic"),
                         Subsection("transition_alt", "I", "stable"),
                         Subsection("second_theme", "I", "lyrical"),
                         Subsection("coda", "I", "final")>>]>>

\* The keys of self.form_templates
form_templates == {"sonata", "rondo", "theme_variations"}

\* Faulty variant of SectionMeasures: the budget rounded up
SectionMeasures_rounded_up(total, proportion) == (total * proportion + 9) \div 10

\* int(total_measures * proportion): the product of an int and 0.3 or 0.4
\* truncates to the same integer as the exact product
SectionMeasures(total, proportion) == (total * proportion) \div 10

\* The entries plan_structure appends for one top-level section
SectionEntries(section, total) ==
    LET section_measures == SectionMeasures(total, section.proportion)
        subsection_measures == section_measures \div Len(section.subsections)
    IN [k \in 1..Len(section.subsections) |->
          [name |-> <<section.name, section.subsections[k].name>>,
           measures |-> subsection_measures,
           key |-> section.subsections[k].key,
           character |-> section.subsections[k].character,
           parent_section |-> section.name]]

RECURSIVE Flatten(_)
Flatten(ss) == IF Len(ss) = 0 THEN <<>> ELSE Head(ss) \o Flatten(Tail(ss))

\* A plan_structure without the fallback: an unregistered form gets no plan
plan_structure_no_fallback(total, form_name) ==
    IF form_name = "sonata"
       THEN Flatten([k \in 1..Len(sonata_template) |->
                       SectionEntries(sonata_template[k], total)])
       ELSE <<>>

plan_structure(total, form_name) ==
    LET f == IF form_name \notin form_templates THEN "sonata" ELSE form_name
    IN IF f = "sonata"
          THEN Flatten([k \in 1..Len(sonata_template) |->
                          SectionEntries(sonata_template[k], total)])
          ELSE <<>>

----------------------------------------------------------------------------
(* BeethovenComposerAdvanced: the helpers of compose                       *)

\* One entry of beethoven_patterns['melodic_intervals']: key is the tuple
\* the string evaluates to, <<n>> standing for the key of a single interval
PatternEntry(key, count) == [key |-> key, count |-> count]

Min2(a, b) == IF a < b THEN a ELSE b

\* The sequences _train_default_patterns trains from one entry of the file
EntryTraining(entry) ==
    IF Len(entry.key) = 2
       THEN LET pattern == <<60, 60 + entry.key[1], 60 + entry.key[1] + entry.key[2]>>
            IN [k \in 1..Min2(entry.count \div 10, 5) |-> pattern]
       ELSE <<>>

\* The hand-written pitch and rhythm patterns of _train_default_patterns
DefaultPitchPatterns ==
    <<(<<60, 62, 64, 65, 67, 69, 71, 72>>),
      (<<72, 71, 69, 67, 65, 64, 62, 60>>),
      (<<60, 64, 67, 72, 67, 64, 60>>),
      (<<60, 60, 60, 56, 57, 57, 57, 53>>),
      (<<60, 62, 64, 60, 64, 65, 67>>)>>

DefaultRhythmPatterns ==
    <<(<<64, 64, 64, 64>>),
      (<<128, 64, 64>>),
      (<<64, 32, 32, 64, 64>>),
      (<<32, 32, 32, 32, 128>>),
      (<<192, 64>>)>>

\* Every pitch sequence _train_default_patterns trains, in order;
\* file is the list of entries of the patterns file, <<>> when there is none
DefaultPitchTraining(file) ==
    Flatten([k \in 1..Len(file) |-> EntryTraining(file[k])]) \o DefaultPitchPatterns

RECURSIVE TrainAllPitch(_, _)
TrainAllPitch(mm, seqs) ==
    IF Len(seqs) = 0 THEN mm ELSE TrainAllPitch(train_pitch(mm, Head(seqs)), Tail(seqs))

RECURSIVE TrainAllRhythm(_, _)
TrainAllRhythm(mm, seqs) ==
    IF Len(seqs) = 0 THEN mm ELSE TrainAllRhythm(train_rhythm(mm, Head(seqs)), Tail(seqs))

train_default_patterns(mm, file) ==
    TrainAllRhythm(TrainAllPitch(mm, DefaultPitchTraining(file)), DefaultRhythmPatterns)

RECURSIVE SeqToBag(_)
SeqToBag(seqs) ==
    IF Len(seqs) = 0 THEN EmptyBag ELSE SetToBag({Head(seqs)}) (+) SeqToBag(Tail(seqs))

Setting(tension_level, dynamic_level, harmonic_rhythm) ==
    [tension_level |-> tension_level, dynamic_level |-> dynamic_level,
     harmonic_rhythm |-> harmonic_rhythm]

character_settings ==
    [energetic  |-> Setting(7, "f", 64),
     lyrical    |-> Setting(3, "p", 128),
     intense    |-> Setting(9, "ff", 32),
     modulatory |-> Setting(6, "mf", 64),
     conclusive |-> Setting(2, "f", 128),
     unstable   |-> Setting(8, "mf", 32)]

\* Faulty variant of set_context_for_character: a modulatory section moves
\* the context to the dominant key
set_context_for_character_modulating(ctx, character) ==
    LET settings == IF character \in DOMAIN character_settings
                       THEN character_settings[character]
                       ELSE Setting(5, "mf", 64)
    IN [ctx EXCEPT !.tension_level = settings.tension_level,
                   !.dynamic_level = settings.dynamic_level,
                   !.harmonic_rhythm = settings.harmonic_rhythm,
                   !.current_key = IF character = "modulatory" THEN "G" ELSE @]

set_context_for_character(ctx, character) ==
    LET settings == IF character \in DOMAIN character_settings
                       THEN character_settings[character]
                       ELSE Setting(5, "mf", 64)
    IN [ctx EXCEPT !.tension_level = settings.tension_level,
                   !.dynamic_level = settings.dynamic_level,
                   !.harmonic_rhythm = settings.harmonic_rhythm]

dynamic_map ==
    [energetic  |-> <<"f", "mf", "f", "ff">>,
     lyrical    |-> <<"p", "mp", "p", "pp">>,
     intense    |-> <<"ff", "f", "ff", "fff">>,
     modulatory |-> <<"mf", "mp", "mf", "f">>,
     conclusive |-> <<"f", "mf", "f", "ff">>,
     unstable   |-> <<"mp", "mf", "f", "mf">>]

\* The markings _select_dynamic(character) may return
select_dynamic(character) ==
    LET dynamics == IF character \in DOMAIN dynamic_map
                       THEN dynamic_map[character] ELSE <<"mf">>
    IN {dynamics[k] : k \in 1..Len(dynamics)}

\* Faulty variant of MeasureDynamics: a marking on every fifth measure
MeasureDynamics_every_fifth(index, character) ==
    IF index % 5 = 0 THEN select_dynamic(character) ELSE {""}

\* The dynamic the right-hand loop puts on measure m: "" when it inserts none
MeasureDynamics(index, character) ==
    IF index % 4 = 0 THEN select_dynamic(character) ELSE {""}

\* harmony[chord_index:chord_index+4]
Slice(s, from, to) ==
    IF from >= Len(s) THEN <<>> ELSE SubSeq(s, from + 1, Min2(to, Len(s)))

Element(pitches, quarterLength) == [pitches |-> pitches, quarterLength |-> quarterLength]

\* _create_alberti_bass; inv[k] is the inversion drawn for the k-th chord
create_alberti_bass(chord_symbols, ctx, inv) ==
    Flatten([k \in 1..Len(chord_symbols) |->
        LET pitches == realize_harmony(chord_symbols[k], ctx, inv[k]).pitches
        IN <<Element(<<pitches[1]>>, 16), Element(<<pitches[2]>>, 16),
             Element(<<pitches[3]>>, 16), Element(<<pitches[2]>>, 16)>>])

\* _create_sustained_chords, from symbol k on
RECURSIVE SustainedLoop(_, _, _, _, _)
SustainedLoop(chord_symbols, ctx, inv, k, chords) ==
    IF k > Len(chord_symbols) THEN chords
    ELSE IF k = 1 \/ chord_symbols[k] # chord_symbols[k - 1]
       THEN SustainedLoop(chord_symbols, ctx, inv, k + 1,
               Append(chords,
                      Element(realize_harmony(chord_symbols[k], ctx, inv[k]).pitches, 64)))
    ELSE IF Len(chords) > 0
       THEN SustainedLoop(chord_symbols, ctx, inv, k + 1,
               [chords EXCEPT ![Len(chords)].quarterLength = @ + 64])
    ELSE SustainedLoop(chord_symbols, ctx, inv, k + 1, chords)

create_sustained_chords(chord_symbols, ctx, inv) ==
    SustainedLoop(chord_symbols, ctx, inv, 1, <<>>)

\* _create_tremolo
create_tremolo(chord_symbols, ctx, inv) ==
    Flatten([k \in 1..Len(chord_symbols) |->
        LET pitches == realize_harmony(chord_symbols[k], ctx, inv[k]).pitches
        IN Repeat(<<Element(<<pitches[1]>>, 8), Element(<<pitches[3]>>, 8)>>, 8)])

\* _create_standard_accompaniment
create_standard_accompaniment(chord_symbols, ctx, inv) ==
    Flatten([k \in 1..Len(chord_symbols) |->
        LET pitches == realize_harmony(chord_symbols[k], ctx, inv[k]).pitches
        IN <<Element(<<pitches[1]>>, 32), Element(Tail(pitches), 32)>>])

\* The pattern the left-hand loop of _generate_section builds for one measure
AccompanimentPattern(character, chord_symbols, ctx, inv) ==
    IF character = "energetic" THEN create_alberti_bass(chord_symbols, ctx, inv)
    ELSE IF character = "lyrical" THEN create_sustained_chords(chord_symbols, ctx, inv)
    ELSE IF character = "intense" THEN create_tremolo(chord_symbols, ctx, inv)
    ELSE create_standard_accompaniment(chord_symbols, ctx, inv)


----------------------------------------------------------------------------
(* KernAnalyzer of src/kern_analyzer.py: self.patterns, save_analysis and   *)
(* load_analysis.  A dict is the sequence of its items in insertion order.  *)
(* A dict key or a number is held as its type and its str() form, so that   *)
(* the int 2 and the string '2' are different keys with the same text.      *)
(* A defaultdict, a dict and a list are told apart by `kind`, an empty one  *)
(* included.                                                                *)

PyKey(type, str) == [type |-> type, str |-> str]

DictItem(key, value) == [key |-> key, value |-> value]

PyValue(kind, items) == [kind |-> kind, items |-> items]

HistogramCategories ==
    {"melodic_intervals", "harmonic_progressions", "rhythm_patterns", "note_durations",
     "dynamics", "key_signatures", "time_signatures"}

ListCategories == {"motifs", "phrase_structures"}

\* self.patterns as KernAnalyzer.__init__ leaves it
KernAnalyzer_init ==
    [c \in HistogramCategories \cup ListCategories |->
        IF c \in HistogramCategories THEN PyValue("defaultdict", <<>>)
                                     ELSE PyValue("list", <<>>)]

\* d[key] = value on a dict: an existing key keeps its place
DictSet(d, key, value) ==
    IF \E k \in 1..Len(d) : d[k].key = key
       THEN [k \in 1..Len(d) |-> IF d[k].key = key THEN DictItem(key, value) ELSE d[k]]
       ELSE Append(d, DictItem(key, value))

\* d[key] of a defaultdict(int), 0 for a missing key
DictGet(d, key) ==
    IF \E k \in 1..Len(d) : d[k].key = key
       THEN (CHOOSE it \in {d[k] : k \in 1..Len(d)} : it.key = key).value
       ELSE 0

\* self.patterns[category][key] += 1
CountOne(pats, category, key) ==
    [pats EXCEPT ![category].items = DictSet(@, key, DictGet(@, key) + 1)]

\* self.patterns['motifs'].append(motif)
AppendMotifTo(pats, motif) ==
    [pats EXCEPT !["motifs"].items = Append(@, motif)]

\* The key json.dump writes for a dict key: a str as it is, an int and a
\* float by their repr, which is their str() form
JsonKey(key) == key.str

\* Whether json.dump can write the value of one category.  A dict key must
\* be a str, an int or a float, and the duration of a note of a motif (a
\* list of {'pitch': str, 'duration': number}) an int or a float; any other
\* type makes json.dump raise TypeError.
Serializable(v) ==
    IF v.kind = "list"
       THEN \A k \in 1..Len(v.items) : \A n \in 1..Len(v.items[k]) :
               v.items[k][n].duration.type \in {"int", "float"}
       ELSE \A k \in 1..Len(v.items) :
               v.items[k].key.type \in {"str", "int", "float"}

\* The JSON text of one category: an object whose pairs follow the items of
\* the dict, equal keys repeated, or an array
JsonValue(v) ==
    IF v.kind = "list"
       THEN [kind |-> "array", items |-> v.items]
       ELSE [kind |-> "object",
             items |-> [k \in 1..Len(v.items) |->
                          DictItem(JsonKey(v.items[k].key), v.items[k].value)]]

\* No file at filepath
NoFile == [kind |-> "absent", categories |-> <<>>]

\* The file a json.dump that raised leaves behind: opened for writing and
\* holding at most the start of the text
IncompleteFile == [kind |-> "incomplete", categories |-> <<>>]

\* save_analysis: the outcome and the file.  save_data copies every entry of
\* self.patterns, a defaultdict as a dict, and json.dump writes them all.
save_analysis(pats) ==
    IF \A c \in DOMAIN pats : Serializable(pats[c])
       THEN [outcome |-> Returned("None"),
             file |-> [kind |-> "json",
                       categories |-> [c \in DOMAIN pats |-> JsonValue(pats[c])]]]
       ELSE [outcome |-> Raised("TypeError"), file |-> IncompleteFile]

\* The dict json.load builds from the pairs of an object, from pair k on: the
\* keys are strings and a repeated key keeps its last value
RECURSIVE DictFromPairs(_, _, _)
DictFromPairs(pairs, k, d) ==
    IF k > Len(pairs) THEN d
    ELSE DictFromPairs(pairs, k + 1, DictSet(d, PyKey("str", pairs[k].key), pairs[k].value))

\* load_analysis on an analyzer whose patterns are pats: the outcome and the
\* patterns afterwards.  A dict becomes defaultdict(int, value), a list is
\* taken as it is.
load_analysis(pats, f) ==
    IF f.kind # "json"
       THEN [outcome |-> Raised(IF f.kind = "absent" THEN "FileNotFoundError"
                                                      ELSE "JSONDecodeError"),
             patterns |-> pats]
       ELSE [outcome |-> Returned("None"),
             patterns |->
                [c \in DOMAIN pats \cup DOMAIN f.categories |->
                    IF c \notin DOMAIN f.categories THEN pats[c]
                    ELSE IF f.categories[c].kind = "object"
                       THEN PyValue("defaultdict",
                                    DictFromPairs(f.categories[c].items, 1, <<>>))
                       ELSE PyValue("list", f.categories[c].items)]]
----------------------------------------------------------------------------
(* Inputs *)

SpecExample == <<60, 62, 64, 65, 67, 69, 71, 72>>

\* Sequences given to train_pitch: shorter than, as long as and longer than
\* the order, with repeated windows, and with a pitch outside [48,84]
TrainSeqs ==
    {<<60, 62>>, <<60, 60, 60, 60>>, <<62, 60, 62, 90>>, SpecExample}

\* Sequences given to train_rhythm
RhythmSeqs == {<<64, 32, 32, 64, 64>>}

QueryStates(order) == [1..order -> {60, 62}]

HistoryInputs == {<<>>, <<60, 62>>, <<65, 64, 62, 60>>}

TensionInputs == {2, 9}

\* beethoven_patterns.json: absent, or holding interval patterns counted by
\* the analyzer, one of them leading below the range
PatternFiles ==
    {<<>>,
     <<PatternEntry(<<2>>, 40), PatternEntry(<<2, 2>>, 25), PatternEntry(<<-4, -20>>, 10),
       PatternEntry(<<7, 5>>, 3)>>}

Forms == {"sonata", "rondo", "theme_variations", "fugue"}

\* The frames of the calls that are not in progress
NoCompose ==
    /\ total_measures = 0 /\ form = "" /\ structure = <<>>
    /\ primary_motif = MotivicCell(<<>>, <<>>, "", 0)
    /\ sec = 0 /\ current_measure = 0 /\ right_hand = <<>> /\ left_hand = <<>>

NoSection ==
    /\ harmony = <<>> /\ m = 0 /\ right_measures = <<>> /\ left_measures = <<>>
    /\ melody_notes = <<>>

NoProgression ==
    /\ progression = <<>> /\ position = 0 /\ requested = 0

\* No KernAnalyzer acts: the analyzers are as constructed and no file is written
NoAnalysis ==
    /\ patterns = KernAnalyzer_init
    /\ saved_file = NoFile
    /\ loaded_patterns = KernAnalyzer_init

----------------------------------------------------------------------------
(* SpecMarkov: a MarkovChainModel of any order driven through train_pitch, *)
(* train_rhythm and generate_next_pitch, under a context given from outside *)

InitMarkov ==
    /\ \E order \in 1..MaxOrder : markov_model = MarkovChainModel_init(order)
    /\ \E h \in HistoryInputs, t \in TensionInputs :
          context = [MusicalContext_init EXCEPT !.recent_pitches = h,
                                                !.tension_level = t]
    /\ trained = EmptyBag
    /\ trained_rhythm = EmptyBag
    /\ pc = "init"
    /\ query = <<>>
    /\ result = Returned(0)
    /\ random_sample = "all"
    /\ NoCompose /\ NoSection /\ NoProgression /\ NoAnalysis

TrainPitch(seq) ==
    /\ BagCardinality(trained) + BagCardinality(trained_rhythm) < MaxTrainCalls
    /\ markov_model' = train_pitch(markov_model, seq)
    /\ trained' = trained (+) SetToBag({seq})
    /\ pc' = "train_pitch"
    /\ UNCHANGED <<analyzer_vars, context, trained_rhythm, query, result, random_sample,
                   compose_vars, section_vars, progression_vars>>

TrainRhythm(seq) ==
    /\ BagCardinality(trained) + BagCardinality(trained_rhythm) < MaxTrainCalls
    /\ markov_model' = train_rhythm(markov_model, seq)
    /\ trained_rhythm' = trained_rhythm (+) SetToBag({seq})
    /\ pc' = "train_rhythm"
    /\ UNCHANGED <<analyzer_vars, context, trained, query, result, random_sample,
                   compose_vars, section_vars, progression_vars>>

GenerateNextPitch(state) ==
    /\ result' \in generate_next_pitch(markov_model, state, context)
    /\ markov_model' = [markov_model EXCEPT !.transitions =
                          generate_next_pitch_table(markov_model.transitions, state)]
    /\ query' = state
    /\ pc' = "generate_next_pitch"
    /\ UNCHANGED <<analyzer_vars, context, trained, trained_rhythm, random_sample,
                   compose_vars, section_vars, progression_vars>>

NextMarkov ==
    \/ \E seq \in TrainSeqs : TrainPitch(seq)
    \/ \E seq \in RhythmSeqs : TrainRhythm(seq)
    \/ \E state \in QueryStates(markov_model.order) : GenerateNextPitch(state)

SpecMarkov == InitMarkov /\ [][NextMarkov]_vars

----------------------------------------------------------------------------
(* Spec: a BeethovenComposerAdvanced after construction, and its compose   *)

\* The section plan the loop of compose is at
section_plan == structure[sec]

\* __init__ of BeethovenComposerAdvanced: the order-2 model trained by
\* _train_default_patterns from the patterns file and the default patterns
ComposerConstructed(file) ==
    /\ markov_model = train_default_patterns(MarkovChainModel_init(2), file)
    /\ trained = SeqToBag(DefaultPitchTraining(file))
    /\ trained_rhythm = SeqToBag(DefaultRhythmPatterns)
    /\ query = <<>>
    /\ result = Returned(0)

Init ==
    /\ \E file \in PatternFiles : ComposerConstructed(file)
    /\ context = MusicalContext_init
    /\ pc = "idle"
    /\ random_sample \in {"low", "high"}
    /\ NoCompose /\ NoSection /\ NoProgression /\ NoAnalysis

\* compose, up to the loop over the section plans
Compose(total, form_name) ==
    /\ pc = "idle"
    /\ total_measures' = total
    /\ form' = form_name
    /\ structure' = plan_structure(total, form_name)
    /\ primary_motif' \in PrimaryPatterns
    /\ right_hand' = <<>>
    /\ left_hand' = <<>>
    /\ current_measure' = 0
    /\ sec' = 1
    /\ pc' = "compose"
    /\ UNCHANGED <<analyzer_vars, composer_vars, result, query, random_sample, section_vars,
                   progression_vars, history_vars>>

\* The head of the loop over structure and of _generate_section: the context
\* is set and the harmony generated
SectionBegin ==
    /\ pc = "compose"
    /\ sec <= Len(structure)
    /\ LET ctx == set_context_for_character(
                     [context EXCEPT !.section_type = section_plan.parent_section],
                     section_plan.character)
       IN /\ context' = ctx
          /\ harmony' \in generate_progression(section_plan.measures * 4, ctx, random_sample)
    /\ m' = 0
    /\ right_measures' = <<>>
    /\ left_measures' = <<>>
    /\ melody_notes' = <<>>
    /\ pc' = IF section_plan.measures = 0 THEN "section_return" ELSE "right"
    /\ UNCHANGED <<analyzer_vars, markov_model, result, query, random_sample, compose_vars,
                   progression_vars, history_vars>>

\* Faulty variant of MeasureNumber: numbering from start_measure
MeasureNumber_from_start(start_measure, index) == start_measure + index

\* The number of the measure that _generate_section creates for loop value
\* index: m21.stream.Measure(number=start_measure + m + 1)
MeasureNumber(start_measure, index) == start_measure + index + 1

\* The measure the right-hand loop appends, and where the loop goes next
RightAppend(dynamic) ==
    /\ right_measures' = Append(right_measures,
                                [number |-> MeasureNumber(current_measure, m), dynamic |-> dynamic])
    /\ IF m + 1 < section_plan.measures
          THEN m' = m + 1 /\ pc' = "right"
          ELSE m' = 0 /\ pc' = "left"

\* One iteration of the right-hand loop that develops and realizes the motif
RightMotif ==
    /\ pc = "right"
    /\ section_plan.character \in {"energetic", "intense"}
    /\ \E motif_variant \in develop_motif(primary_motif, ""),
          dynamic \in MeasureDynamics(m, section_plan.character) :
          \E r \in {realize_motif(motif_variant, context)} :
             /\ melody_notes' = r.notes
             /\ context' = r.context
             /\ RightAppend(dynamic)
    /\ UNCHANGED <<analyzer_vars, markov_model, result, query, random_sample, compose_vars,
                   harmony, left_measures, progression_vars, history_vars>>

\* One iteration of the right-hand loop that takes the Markov melody
RightMarkov ==
    /\ pc = "right"
    /\ \E o \in generate_markov_melody(markov_model, context, 4, random_sample),
          dynamic \in MeasureDynamics(m, section_plan.character) :
          /\ markov_model' = o.markov_model
          /\ context' = o.context
          /\ melody_notes' = o.notes
          /\ IF o.exc # "none"
                THEN /\ pc' = "raised"
                     /\ result' = Raised(o.exc)
                     /\ UNCHANGED <<m, right_measures>>
                ELSE /\ RightAppend(dynamic)
                     /\ UNCHANGED result
    /\ UNCHANGED <<analyzer_vars, query, random_sample, compose_vars, harmony, left_measures,
                   progression_vars, history_vars>>

\* The durations of the elements appended to a measure
QuarterLengths(pattern) == [k \in 1..Len(pattern) |-> pattern[k].quarterLength]

\* The pitches of the elements appended to a measure: one of a note, several
\* of a chord
Pitches(pattern) == [k \in 1..Len(pattern) |-> pattern[k].pitches]

\* One iteration of the left-hand loop
LeftMeasure ==
    /\ pc = "left"
    /\ \E inv \in InversionDraws(4, random_sample) :
          \E pattern \in {AccompanimentPattern(section_plan.character,
                               Slice(harmony, m * 4, m * 4 + 4), context, inv)} :
             left_measures' = Append(left_measures,
                [number |-> MeasureNumber(current_measure, m),
                 quarterLengths |-> QuarterLengths(pattern),
                 pitches |-> Pitches(pattern)])
    /\ IF m + 1 < section_plan.measures
          THEN m' = m + 1 /\ pc' = "left"
          ELSE m' = 0 /\ pc' = "section_return"
    /\ UNCHANGED <<analyzer_vars, composer_vars, result, query, random_sample, compose_vars,
                   harmony, right_measures, melody_notes, progression_vars, history_vars>>

\* _generate_section returns; compose appends the measures to the parts
SectionReturn ==
    /\ pc = "section_return"
    /\ right_hand' = right_hand \o [k \in 1..Len(right_measures) |-> right_measures[k].number]
    /\ left_hand' = left_hand \o [k \in 1..Len(left_measures) |-> left_measures[k].number]
    /\ current_measure' = current_measure + section_plan.measures
    /\ sec' = sec + 1
    /\ pc' = "compose"
    /\ UNCHANGED <<analyzer_vars, composer_vars, result, query, random_sample, total_measures, form,
                   structure, primary_motif, section_vars, progression_vars, history_vars>>

\* compose returns the score
ComposeReturn ==
    /\ pc = "compose"
    /\ sec > Len(structure)
    /\ pc' = "returned"
    /\ UNCHANGED <<analyzer_vars, composer_vars, result, query, random_sample, compose_vars,
                   section_vars, progression_vars, history_vars>>

Next ==
    \/ \E total \in 1..MaxMeasures, form_name \in Forms : Compose(total, form_name)
    \/ SectionBegin
    \/ RightMotif
    \/ RightMarkov
    \/ LeftMeasure
    \/ SectionReturn
    \/ ComposeReturn

Spec == Init /\ [][Next]_vars

----------------------------------------------------------------------------
(* SpecPlan: StructureGenerator.plan_structure called on its own           *)

InitPlan ==
    /\ ComposerConstructed(<<>>)
    /\ context = MusicalContext_init
    /\ pc = "idle"
    /\ random_sample = "all"
    /\ NoCompose /\ NoSection /\ NoProgression /\ NoAnalysis

PlanStructure(total, form_name) ==
    /\ total_measures' = total
    /\ form' = form_name
    /\ structure' = plan_structure(total, form_name)
    /\ pc' = "plan_structure"
    /\ UNCHANGED <<analyzer_vars, composer_vars, result, query, random_sample, primary_motif, sec,
                   current_measure, right_hand, left_hand, section_vars,
                   progression_vars, history_vars>>

\* The forms of the compose specification, the empty string and a registered
\* name in another case
PlanForms == Forms \cup {"", "Sonata"}

NextPlan ==
    \E total \in 1..MaxTotalMeasures, form_name \in PlanForms :
       PlanStructure(total, form_name)

SpecPlan == InitPlan /\ [][NextPlan]_vars

----------------------------------------------------------------------------
(* SpecHarmony: HarmonicGenerator.generate_progression, one iteration of   *)
(* its for loop per step, under a context given from outside               *)

SectionTypes == {"exposition", "development", "recapitulation"}

InitHarmony ==
    /\ ComposerConstructed(<<>>)
    /\ \E st \in SectionTypes, t \in TensionInputs :
          context = [MusicalContext_init EXCEPT !.section_type = st,
                                                !.tension_level = t]
    /\ pc = "idle"
    /\ random_sample = "all"
    /\ NoCompose /\ NoSection /\ NoProgression /\ NoAnalysis

\* progression = ['I'], and the loop is entered
GenerateProgression(len) ==
    /\ pc = "idle"
    /\ progression' = <<"I">>
    /\ position' = 1
    /\ requested' = len
    /\ pc' = "generate_progression"
    /\ UNCHANGED <<analyzer_vars, composer_vars, result, query, random_sample, compose_vars,
                   section_vars, history_vars>>

\* One iteration of for i in range(1, length)
ProgressionStep ==
    /\ pc = "generate_progression"
    /\ position < requested
    /\ progression' \in ProgressionIteration(progression, position, requested,
                                             context, random_sample)
    /\ position' = position + 1
    /\ UNCHANGED <<analyzer_vars, composer_vars, call_vars, requested, compose_vars,
                   section_vars, history_vars>>

\* return progression
ProgressionReturn ==
    /\ pc = "generate_progression"
    /\ position >= requested
    /\ pc' = "progression_returned"
    /\ UNCHANGED <<analyzer_vars, composer_vars, result, query, random_sample, compose_vars,
                   section_vars, progression_vars, history_vars>>

NextHarmony ==
    \/ \E len \in 0..MaxLength : GenerateProgression(len)
    \/ ProgressionStep
    \/ ProgressionReturn

SpecHarmony == InitHarmony /\ [][NextHarmony]_vars

----------------------------------------------------------------------------
(* SpecSection: _generate_section called by the loop of compose with one   *)
(* section plan of the sonata template, of any measure count up to         *)
(* MaxSectionMeasures, under the context an earlier section may have left  *)
(* and with the seed motif whose intervals are all 0                       *)

SectionPlans ==
    {[plan_structure(0, "sonata")[k] EXCEPT !.measures = n] :
        k \in 1..12, n \in 0..MaxSectionMeasures}

SectionHistories == {<<>>, <<60, 62>>}

SectionMotifs == {p \in PrimaryPatterns : p.contour = "stable"}

InitSection ==
    /\ ComposerConstructed(<<>>)
    /\ \E h \in SectionHistories :
          context = [MusicalContext_init EXCEPT !.recent_pitches = h]
    /\ pc = "compose"
    /\ random_sample \in {"low", "high"}
    /\ total_measures = 0
    /\ form = "sonata"
    /\ \E plan \in SectionPlans : structure = <<plan>>
    /\ primary_motif \in SectionMotifs
    /\ sec = 1
    /\ current_measure = 0
    /\ right_hand = <<>>
    /\ left_hand = <<>>
    /\ NoSection /\ NoProgression /\ NoAnalysis

NextSection ==
    \/ SectionBegin
    \/ RightMotif
    \/ RightMarkov
    \/ LeftMeasure
    \/ SectionReturn
    \/ ComposeReturn

SpecSection == InitSection /\ [][NextSection]_vars

\* ---------------------------------------------------------------------------
\* Several compose calls on one BeethovenComposerAdvanced.  self.context is
\* assigned in __init__ only; compose reads and writes it and never replaces
\* it, so a call starts from what the call before it left, whether that call
\* returned or raised.
\* ---------------------------------------------------------------------------

InitReuse ==
    /\ ComposerConstructed(<<>>)
    /\ context = MusicalContext_init
    /\ pc = "idle"
    /\ random_sample \in {"low", "high"}
    /\ NoCompose /\ NoSection /\ NoProgression /\ NoAnalysis

\* compose on a composer that is new or has finished an earlier call; the
\* seed motif is the level one, as in SpecSection
ComposeAgain(total, form_name) ==
    /\ pc \in {"idle", "returned", "raised"}
    /\ total_measures' = total
    /\ form' = form_name
    /\ structure' = plan_structure(total, form_name)
    /\ primary_motif' \in SectionMotifs
    /\ right_hand' = <<>>
    /\ left_hand' = <<>>
    /\ current_measure' = 0
    /\ sec' = 1
    /\ pc' = "compose"
    /\ UNCHANGED <<analyzer_vars, composer_vars, result, query, random_sample, section_vars,
                   progression_vars, history_vars>>

NextReuse ==
    \/ \E total \in 1..MaxMeasures, form_name \in Forms : ComposeAgain(total, form_name)
    \/ SectionBegin
    \/ RightMotif
    \/ RightMarkov
    \/ LeftMeasure
    \/ SectionReturn
    \/ ComposeReturn

SpecReuse == InitReuse /\ [][NextReuse]_vars

----------------------------------------------------------------------------
(* SpecMotif: a MotivicDeveloper applied to a cell given from outside.      *)
(* primary_motif is the cell, query the techniques applied so far, the      *)
(* first to the cell and each later one to the cell returned before, and    *)
(* result the cell returned last.                                           *)

MaxDevelopments == 2
MaxRealized == 28      \* intervals of the longest cell that is realized

\* The four patterns of create_primary_motif, a cell of two intervals, which
\* fragment returns as it is, and a cell with an ascending contour
MotifInputs ==
    PrimaryPatterns \cup
    {MotivicCell(<<4, 3>>, <<64, 32>>, "ascending", 10000),
     MotivicCell(<<5, -1, -4>>, <<16, 48, 64>>, "inverted_arch", 6000)}

InitMotif ==
    /\ ComposerConstructed(<<>>)
    /\ context = MusicalContext_init
    /\ pc = "idle"
    /\ random_sample = "all"
    /\ total_measures = 0 /\ form = "" /\ structure = <<>>
    /\ primary_motif \in MotifInputs
    /\ sec = 0 /\ current_measure = 0 /\ right_hand = <<>> /\ left_hand = <<>>
    /\ NoSection /\ NoProgression /\ NoAnalysis

\* develop_motif(primary_motif, technique), as _generate_section calls it
DevelopSeed(technique) ==
    /\ \E cell \in develop_motif(primary_motif, technique) : result' = Returned(cell)
    /\ primary_motif' = develop_motif_input(primary_motif, technique)
    /\ query' = <<technique>>
    /\ pc' = "develop_motif"
    /\ UNCHANGED <<analyzer_vars, composer_vars, random_sample, total_measures, form, structure, sec,
                   current_measure, right_hand, left_hand, section_vars,
                   progression_vars, history_vars>>

\* develop_motif(cell, technique) on the cell the call before returned
DevelopResult(technique) ==
    /\ pc = "develop_motif"
    /\ Len(query) < MaxDevelopments
    /\ \E cell \in develop_motif(result.value, technique) : result' = Returned(cell)
    /\ query' = Append(query, technique)
    /\ UNCHANGED <<analyzer_vars, composer_vars, pc, random_sample, compose_vars, section_vars,
                   progression_vars, history_vars>>

NextMotif ==
    \/ \E technique \in Techniques : DevelopSeed(technique)
    \/ \E technique \in Techniques : DevelopResult(technique)

SpecMotif == InitMotif /\ [][NextMotif]_vars

----------------------------------------------------------------------------
(* SpecChord: _select_next_chord and realize_harmony of a HarmonicGenerator *)
(* called with chord symbols given from outside.  query holds the           *)
(* arguments of the last call, the drawn inversion included.                *)

\* The seven symbols of the rule table and of root_map, and strings that are
\* keys of neither
ChordSymbols ==
    DOMAIN root_map \cup {"II", "Vi", "III", "i", "v", "N6", "V7", ""}

SelectNextChord(current) ==
    /\ \E chord \in select_next_chord(current, context, random_sample) :
          result' = Returned(chord)
    /\ query' = <<current>>
    /\ pc' = "select_next_chord"
    /\ UNCHANGED <<analyzer_vars, composer_vars, random_sample, compose_vars, section_vars,
                   progression_vars, history_vars>>

RealizeHarmony(chord_symbol) ==
    /\ \E inversion \in Inversions :
          /\ result' = Returned(realize_harmony(chord_symbol, context, inversion))
          /\ query' = <<chord_symbol, inversion>>
    /\ pc' = "realize_harmony"
    /\ UNCHANGED <<analyzer_vars, composer_vars, random_sample, compose_vars, section_vars,
                   progression_vars, history_vars>>

NextChord ==
    \/ \E current \in ChordSymbols : SelectNextChord(current)
    \/ \E chord_symbol \in ChordSymbols : RealizeHarmony(chord_symbol)

SpecChord == InitHarmony /\ [][NextChord]_vars

----------------------------------------------------------------------------
(* SpecPitch: generate_next_pitch of a MarkovChainModel that train_pitch    *)
(* may have trained, queried at states at the ends of the range and inside  *)
(* it, under a history of every tendency and a low, a middle and a high     *)
(* tension                                                                  *)

\* neutral (two of them), descending, ascending and stable histories
PitchHistories == HistoryInputs \cup {<<60, 62, 64>>, <<60, 62, 61>>}

\* tension_level below 0.3, between 0.3 and 0.7, above 0.7
PitchTensions == TensionInputs \cup {5}

\* The states queried: they end at an end of the range or inside it
PitchStates(order) ==
    {Append(before, last) : before \in [1..(order - 1) -> {60, 62}],
                            last \in {PitchLow, 60, 62, PitchHigh}}

\* Sequences given to train_pitch: the scale, and one with a leap
PitchTrainSeqs == {SpecExample, <<62, 60, 62, 90>>}

InitPitch ==
    /\ \E order \in 1..MaxOrder : markov_model = MarkovChainModel_init(order)
    /\ \E h \in PitchHistories, t \in PitchTensions :
          context = [MusicalContext_init EXCEPT !.recent_pitches = h,
                                                !.tension_level = t]
    /\ trained = EmptyBag
    /\ trained_rhythm = EmptyBag
    /\ pc = "init"
    /\ query = <<>>
    /\ result = Returned(0)
    /\ random_sample = "all"
    /\ NoCompose /\ NoSection /\ NoProgression /\ NoAnalysis

NextPitch ==
    \/ \E seq \in PitchTrainSeqs : TrainPitch(seq)
    \/ \E state \in PitchStates(markov_model.order) : GenerateNextPitch(state)

SpecPitch == InitPitch /\ [][NextPitch]_vars

----------------------------------------------------------------------------
(* SpecAnalyzer: a KernAnalyzer counts patterns as its analysis methods do, *)
(* saves them with save_analysis, and a fresh KernAnalyzer reads the file   *)
(* with load_analysis.                                                      *)

MaxPatterns == 3     \* patterns counted and motifs appended before the save

\* The category and key of self.patterns[category][key] += 1 in the analysis
\* methods: an interval (int) or str() of a pair of intervals, a
\* quarterLength (a float, or a Fraction for a note of a triplet), str() of
\* four quarterLengths, '<chord>-><chord>', str() of a time signature
PatternInputs ==
    {<<"melodic_intervals", PyKey("int", "2")>>,
     <<"melodic_intervals", PyKey("int", "-3")>>,
     <<"melodic_intervals", PyKey("str", "(2, -3)")>>,
     <<"note_durations", PyKey("float", "1.0")>>,
     <<"note_durations", PyKey("float", "0.5")>>,
     <<"note_durations", PyKey("Fraction", "1/3")>>,
     <<"rhythm_patterns", PyKey("str", "(1.0, 0.5, 0.5, 1.0)")>>,
     <<"harmonic_progressions", PyKey("str", "C->G")>>,
     <<"time_signatures", PyKey("str", "4/4")>>}

\* A motif as extract_motifs appends it: four notes, each with the name of
\* its pitch and its quarterLength
MotifDescriptors ==
    {[k \in 1..4 |-> [pitch |-> <<"C4", "D4", "E4", "C4">>[k],
                      duration |-> PyKey("float", "0.5")]]}

\* The number of patterns counted and motifs appended so far
RECURSIVE CountedIn(_, _)
CountedIn(d, k) == IF k > Len(d) THEN 0 ELSE d[k].value + CountedIn(d, k + 1)

RECURSIVE Counted(_, _)
Counted(pats, C) ==
    IF C = {} THEN 0
    ELSE LET c == CHOOSE x \in C : TRUE
         IN (IF pats[c].kind = "list" THEN Len(pats[c].items)
                                      ELSE CountedIn(pats[c].items, 1))
            + Counted(pats, C \ {c})

InitAnalyzer ==
    /\ ComposerConstructed(<<>>)
    /\ context = MusicalContext_init
    /\ pc = "idle"
    /\ random_sample = "all"
    /\ NoCompose /\ NoSection /\ NoProgression /\ NoAnalysis

\* self.patterns[category][key] += 1
CountPattern(category, key) ==
    /\ pc = "idle"
    /\ Counted(patterns, DOMAIN patterns) < MaxPatterns
    /\ patterns' = CountOne(patterns, category, key)
    /\ UNCHANGED <<saved_file, loaded_patterns, composer_vars, call_vars, compose_vars,
                   section_vars, progression_vars, history_vars>>

\* self.patterns['motifs'].append(motif)
AppendMotif(motif) ==
    /\ pc = "idle"
    /\ Counted(patterns, DOMAIN patterns) < MaxPatterns
    /\ patterns' = AppendMotifTo(patterns, motif)
    /\ UNCHANGED <<saved_file, loaded_patterns, composer_vars, call_vars, compose_vars,
                   section_vars, progression_vars, history_vars>>

SaveAnalysis ==
    /\ pc = "idle"
    /\ \E saved \in {save_analysis(patterns)} :
          /\ saved_file' = saved.file
          /\ result' = saved.outcome
          /\ pc' = IF saved.outcome.exc = "none" THEN "save_analysis" ELSE "save_raised"
    /\ UNCHANGED <<patterns, loaded_patterns, composer_vars, query, random_sample,
                   compose_vars, section_vars, progression_vars, history_vars>>

\* load_analysis of a KernAnalyzer constructed for it, on the file left by
\* save_analysis
LoadAnalysis ==
    /\ pc \in {"save_analysis", "save_raised"}
    /\ \E loaded \in {load_analysis(KernAnalyzer_init, saved_file)} :
          /\ loaded_patterns' = loaded.patterns
          /\ result' = loaded.outcome
          /\ pc' = IF loaded.outcome.exc = "none" THEN "load_analysis" ELSE "load_raised"
    /\ UNCHANGED <<patterns, saved_file, composer_vars, query, random_sample,
                   compose_vars, section_vars, progression_vars, history_vars>>

NextAnalyzer ==
    \/ \E input \in PatternInputs : CountPattern(input[1], input[2])
    \/ \E motif \in MotifDescriptors : AppendMotif(motif)
    \/ SaveAnalysis
    \/ LoadAnalysis

SpecAnalyzer == InitAnalyzer /\ [][NextAnalyzer]_vars
----------------------------------------------------------------------------
(* Properties of MarkovChainModel, checked under SpecMarkov                 *)

\* The number of positions of seq where the window s is followed by x
Occurrences(seq, s, x) ==
    Cardinality({i \in 1..(Len(seq) - Len(s)) :
                    SubSeq(seq, i, i + Len(s) - 1) = s /\ seq[i + Len(s)] = x})

\* The symbols that follow the window s somewhere in a sequence of the bag
Followers(bag, s) ==
    UNION {{q[j + Len(s)] : j \in {i \in 1..(Len(q) - Len(s)) :
                                       SubSeq(q, i, i + Len(s) - 1) = s}}
           : q \in BagToSet(bag)}

\* The windows of `order` symbols that have a follower in a sequence of the bag
Windows(bag, order) ==
    UNION {{SubSeq(q, j, j + order - 1) : j \in 1..(Len(q) - order)}
           : q \in BagToSet(bag)}

\* The occurrences of s followed by x over every sequence of the bag, each
\* sequence counted as often as it was trained
TotalOccurrences(bag, s, x) ==
    SumOver([q \in BagToSet(bag) |-> bag[q] * Occurrences(q, s, x)], BagToSet(bag))

\* The table that records exactly the occurrences in the bag
OccurrenceTable(bag, order) ==
    [s \in Windows(bag, order) |->
        [x \in Followers(bag, s) |-> TotalOccurrences(bag, s, x)]]

\* Same keys and same values, whatever the representation of the dict
SameDict(d, e) ==
    /\ DOMAIN d = DOMAIN e
    /\ \A k \in DOMAIN d : d[k] = e[k]

SameTable(t, u) ==
    /\ DOMAIN t = DOMAIN u
    /\ \A s \in DOMAIN t : SameDict(t[s], u[s])

\* C1: generate_next_pitch never raises: for every queried state and every
\* context, the empty recent-pitch history included, it returns a pitch.
C1_GenerateNextPitchNeverRaises ==
    pc = "generate_next_pitch" => result.exc = "none"

\* C2: for a state present in the pitch transition table, every value that
\* generate_next_pitch returns was observed to follow that state in training.
C2_ReturnedPitchWasObserved ==
    (/\ pc = "generate_next_pitch"
     /\ query \in DOMAIN markov_model.transitions
     /\ result.exc = "none")
    => result.value \in Followers(trained, query)

\* C2 witness: a trained state was queried under a non-empty history and one
\* of several observed followers came back
C2_Witness ==
    /\ pc = "generate_next_pitch"
    /\ query \in DOMAIN markov_model.transitions
    /\ result.exc = "none"
    /\ Cardinality(Followers(trained, query)) >= 2
    /\ result.value \in Followers(trained, query)

\* C9: after any training calls on a model of order N, the count stored for
\* state s and next symbol x is the number of positions, over all trained
\* sequences, where s is immediately followed by x: training is additive, does
\* not depend on the order of the calls, a sequence of length <= N adds
\* nothing, and training the example scale with order 2 leaves 64 as the only
\* candidate of (60,62).
C9_CountsAreOccurrences ==
    /\ SameTable(markov_model.transitions,
                 OccurrenceTable(trained, markov_model.order))
    /\ SameTable(markov_model.rhythm_transitions,
                 OccurrenceTable(trained_rhythm, markov_model.order))
    /\ (markov_model.order = 2 /\ trained = SetToBag({SpecExample}))
          => SameDict(markov_model.transitions[<<60, 62>>], (64 :> 1))

\* C9 witness: two pitch sequences were trained, one of them no longer than
\* the order, and a count above 1 was accumulated
C9_Witness ==
    /\ BagCardinality(trained) = 2
    /\ \E q \in BagToSet(trained) : Len(q) <= markov_model.order
    /\ \E s \in DOMAIN markov_model.transitions :
          \E x \in DOMAIN markov_model.transitions[s] :
             markov_model.transitions[s][x] >= 2
----------------------------------------------------------------------------
(* Properties of compose, checked under Spec                               *)

\* sum(s['measures'] for s in structure_plan)
PlannedMeasures(plan) ==
    SumOver([k \in 1..Len(plan) |-> plan[k].measures], 1..Len(plan))

\* C3: every pitch emitted into the melody voice during compose, by motif
\* realization or by Markov generation and whatever the Markov table was
\* trained on, lies in [48,84].
C3_MelodyPitchInRange ==
    \A k \in 1..Len(melody_notes) : melody_notes[k].pitch \in PitchLow..PitchHigh

\* C6: in every score compose returns, the right hand and the left hand hold
\* the same number of measures, the sum of the planned sections' measures,
\* and both number their measures 1..N consecutively.
C6_VoicesSpanTheSameMeasures ==
    pc = "returned" =>
        /\ Len(right_hand) = PlannedMeasures(structure)
        /\ Len(left_hand) = Len(right_hand)
        /\ \A k \in 1..Len(right_hand) : right_hand[k] = k /\ left_hand[k] = k

\* C6 witness: compose returned a score of twelve one-measure sections
C6_Witness ==
    /\ pc = "returned"
    /\ PlannedMeasures(structure) = 12
    /\ Len(right_hand) = 12
    /\ Len(left_hand) = 12

\* C8: for every positive total_measures and each form of sonata, rondo and
\* theme_variations, compose returns a score whose two voices each contain at
\* least one measure: the section plan is neither empty nor all zero.
C8_ScoreIsStructurallyComplete ==
    (pc \in {"returned", "raised"} /\ total_measures >= 1
        /\ form \in {"sonata", "rondo", "theme_variations"})
    => /\ pc = "returned"
       /\ Len(structure) >= 1
       /\ Len(right_hand) >= 1
       /\ Len(left_hand) >= 1

\* C10: the pitch and rhythm transition tables are read-only during
\* generation: no step of compose, of _generate_markov_melody or of
\* generate_next_pitch adds a state or a candidate or changes a count.
C10_TablesAreReadOnly ==
    [][markov_model' = markov_model]_vars

\* C10 witness: a measure of a lyrical section, which only the Markov path
\* generates, has been generated from a state the table does not hold
C10_Witness ==
    /\ pc \in {"right", "left"}
    /\ section_plan.character = "lyrical"
    /\ Len(melody_notes) = 4
    /\ \E k \in 1..3 :
          <<melody_notes[k].pitch, melody_notes[k + 1].pitch>>
              \notin DOMAIN markov_model.transitions
----------------------------------------------------------------------------
(* Properties of generate_progression, checked under SpecHarmony           *)

\* C4: every progression generate_progression returns for a length of at
\* least 3 ends on a completed cadence: its last chord is I or vi, never an
\* unresolved V or vii.
C4_ProgressionEndsOnCadence ==
    (pc = "progression_returned" /\ requested >= 3)
    => Last(progression) \in {"I", "vi"}

----------------------------------------------------------------------------
(* Properties of plan_structure, checked under SpecPlan                    *)

\* C5: for every positive total_measures the sonata plan has exactly 12
\* entries, whose parents are exposition (4), then development (4), then
\* recapitulation (4), and whose measures sum to at most total_measures.
C5_SonataPlanShape ==
    (pc = "plan_structure" /\ form = "sonata") =>
        /\ Len(structure) = 12
        /\ \A k \in 1..4 : structure[k].parent_section = "exposition"
        /\ \A k \in 5..8 : structure[k].parent_section = "development"
        /\ \A k \in 9..12 : structure[k].parent_section = "recapitulation"
        /\ PlannedMeasures(structure) <= total_measures

\* C5 witness: the plan of 32 measures, which loses measures to truncation
C5_Witness ==
    /\ pc = "plan_structure"
    /\ form = "sonata"
    /\ total_measures = 32
    /\ Len(structure) = 12
    /\ PlannedMeasures(structure) = 28

----------------------------------------------------------------------------
(* Properties of _generate_section, checked under SpecSection              *)

\* The markings a section of this character may carry
Palette(character) ==
    IF character \in DOMAIN dynamic_map
       THEN {dynamic_map[character][k] : k \in 1..Len(dynamic_map[character])}
       ELSE {"mf"}

\* C7: in every generated section the melody measures with section-relative
\* index 0, 4, 8, ... carry a dynamic marking, so every run of 4 consecutive
\* measures of an energetic or intense section holds at least one marking,
\* and each marking is from the palette of the character, 'mf' when the
\* character has none.
C7_DynamicEveryFourthMeasure ==
    sec \in 1..Len(structure) =>
    /\ \A k \in 1..Len(right_measures) :
          /\ ((k - 1) % 4 = 0) => right_measures[k].dynamic # ""
          /\ right_measures[k].dynamic # ""
                => right_measures[k].dynamic \in Palette(section_plan.character)
    /\ (Len(right_measures) >= 4 /\ section_plan.character \in {"energetic", "intense"})
          => \A j \in 1..(Len(right_measures) - 3) :
                \E k \in j..(j + 3) : right_measures[k].dynamic # ""

\* C7 witness: the right hand of an intense section of five measures is
\* complete and its fifth measure carries a marking
C7_Witness ==
    /\ pc = "left"
    /\ section_plan.character = "intense"
    /\ Len(right_measures) = 5
    /\ right_measures[1].dynamic = "fff"
    /\ right_measures[2].dynamic = ""
    /\ right_measures[5].dynamic \in {"ff", "f", "fff"}

\* C11: every compose call starts on a freshly constructed MusicalContext:
\* when a call begins, a second call on the same composer included, the
\* recent-pitch history is empty and tension_level, dynamic_level,
\* harmonic_rhythm and section_type hold their initial values.
C11_ComposeStartsOnFreshContext ==
    (pc = "compose" /\ sec = 1) => context = MusicalContext_init

\* C12: transpose, invert, retrograde, augment, diminish, fragment, sequence
\* and develop_motif leave the cell they are given as it was: its intervals,
\* rhythm, contour and importance are the same after the call, so the seed
\* motif is unchanged after any number of developments.
C12_InputMotifUntouched == [][primary_motif' = primary_motif]_vars

\* C12 witness: the seed has been developed by a retrograde that returned a
\* different cell, and the seed is still one of the given cells
C12_Witness ==
    /\ pc = "develop_motif"
    /\ query = <<"retrograde">>
    /\ result.value.intervals # primary_motif.intervals
    /\ primary_motif \in MotifInputs

\* C13: invert negates every interval and leaves the rhythm as it is, so
\* inverting twice gives the intervals (and the rhythm) of the cell given.
C13_InvertIsInvolution ==
    /\ (pc = "develop_motif" /\ query = <<"invert">>) =>
          /\ Len(result.value.intervals) = Len(primary_motif.intervals)
          /\ \A k \in 1..Len(primary_motif.intervals) :
                result.value.intervals[k] = -primary_motif.intervals[k]
          /\ result.value.rhythm = primary_motif.rhythm
    /\ (pc = "develop_motif" /\ query = <<"invert", "invert">>) =>
          /\ result.value.intervals = primary_motif.intervals
          /\ result.value.rhythm = primary_motif.rhythm

\* C13 witness: a cell with rising and falling intervals has been inverted twice
C13_Witness ==
    /\ pc = "develop_motif"
    /\ query = <<"invert", "invert">>
    /\ primary_motif.intervals = <<-1, -2, -2, 7>>
    /\ result.value.intervals = <<-1, -2, -2, 7>>

\* C14: retrograde reverses the intervals and the rhythm, so applying it
\* twice gives the intervals and the rhythm of the cell given.
C14_RetrogradeIsInvolution ==
    /\ (pc = "develop_motif" /\ query = <<"retrograde">>) =>
          /\ result.value.intervals = Reverse(primary_motif.intervals)
          /\ result.value.rhythm = Reverse(primary_motif.rhythm)
    /\ (pc = "develop_motif" /\ query = <<"retrograde", "retrograde">>) =>
          /\ result.value.intervals = primary_motif.intervals
          /\ result.value.rhythm = primary_motif.rhythm

\* C14 witness: a cell that is no palindrome has been reversed twice
C14_Witness ==
    /\ pc = "develop_motif"
    /\ query = <<"retrograde", "retrograde">>
    /\ primary_motif.rhythm = <<32, 32, 32, 96>>
    /\ result.value.rhythm = <<32, 32, 32, 96>>

\* C15: augment doubles and diminish halves every duration, so
\* diminish(augment(m)) and augment(diminish(m)) have exactly the rhythm of
\* m; the intervals are those of m throughout.
C15_AugmentDiminishCancel ==
    (pc = "develop_motif"
        /\ query \in {<<"augment", "diminish">>, <<"diminish", "augment">>}) =>
       /\ result.value.rhythm = primary_motif.rhythm
       /\ result.value.intervals = primary_motif.intervals

\* C15 witness: the cell with durations 0.25, 0.25, 0.25, 0.75 has been
\* halved and then doubled
C15_Witness ==
    /\ pc = "develop_motif"
    /\ query = <<"diminish", "augment">>
    /\ primary_motif.rhythm = <<16, 16, 16, 48>>
    /\ result.value.rhythm = <<16, 16, 16, 48>>

\* C16: a form that is not a key of form_templates is planned as a sonata:
\* plan_structure(t, form) returns what plan_structure(t, 'sonata') returns.
C16_UnknownFormIsSonata ==
    (pc = "plan_structure" /\ form \notin form_templates) =>
       /\ structure = plan_structure(total_measures, "sonata")
       /\ Len(structure) = 12
       /\ \A k \in 1..Len(structure) :
             structure[k].parent_section \in {"exposition", "development", "recapitulation"}

\* C16 witness: 'fugue' has been planned over 40 measures and the plan opens
\* with the first theme of the exposition, three measures long
C16_Witness ==
    /\ pc = "plan_structure"
    /\ form = "fugue"
    /\ total_measures = 40
    /\ structure[1].name = <<"exposition", "first_theme">>
    /\ structure[1].measures = 3

\* The pitch classes of a chord, counted from the tonic of the key
PitchClasses(chord, key) ==
    {(chord.pitches[k] - TonicMidi(key)) % 12 : k \in 1..Len(chord.pitches)}

\* C17: a chord symbol that is not one of the seven Roman numerals is treated
\* as the tonic: _select_next_chord returns 'I' for it, and realize_harmony
\* builds the major triad on the tonic for it; neither raises.
C17_UnknownSymbolIsTonic ==
    /\ (pc = "select_next_chord" /\ query[1] \notin DOMAIN progression_rules) =>
          result = Returned("I")
    /\ (pc = "realize_harmony" /\ query[1] \notin DOMAIN root_map) =>
          /\ result.exc = "none"
          /\ PitchClasses(result.value, context.current_key) = {0, 4, 7}

\* The items of a category with every dict key replaced by its str() form
StrItems(v) ==
    IF v.kind = "list" THEN v.items
    ELSE [k \in 1..Len(v.items) |->
            DictItem(PyKey("str", v.items[k].key.str), v.items[k].value)]

\* C18: patterns saved with save_analysis and read back with load_analysis
\* into a fresh KernAnalyzer keep every category, the seven histograms and
\* the two lists, an empty one included, and keep every count under the
\* string form of its key.
C18_RoundTripPreservesPatterns ==
    pc \in {"load_analysis", "load_raised"} =>
       /\ result.exc = "none"
       /\ DOMAIN loaded_patterns = HistogramCategories \cup ListCategories
       /\ \A c \in DOMAIN patterns :
             /\ (loaded_patterns[c].kind = "list") <=> (patterns[c].kind = "list")
             /\ loaded_patterns[c].items = StrItems(patterns[c])

\* round(n / d) of Python: the nearest integer, a tie going to the even one
RoundHalfEven(n, d) ==
    LET q == n \div d
        r == n % d
    IN IF 2 * r < d THEN q
       ELSE IF 2 * r > d THEN q + 1
       ELSE IF q % 2 = 0 THEN q ELSE q + 1

\* C19: in the sonata plan the budget of a top-level section is
\* round(total_measures * proportion), with proportions 0.3, 0.4 and 0.3, and
\* each of its four subsections gets budget // 4 measures.
C19_SectionBudgetIsRounded ==
    (pc = "plan_structure" /\ Len(structure) = 12) =>
       \A k \in 1..12 :
          LET section == sonata_template[((k - 1) \div 4) + 1]
          IN structure[k].measures
                = RoundHalfEven(total_measures * section.proportion, 10) \div 4

\* C20: when generate_progression splices a cadence into the progression,
\* the position counter moves past the chords inserted, so the progression
\* holds one chord per position: as many chords as positions passed while
\* the loop runs, and exactly `length` chords when it returns.
C20_OneChordPerPosition ==
    /\ (pc = "generate_progression" /\ requested >= 1) => Len(progression) = position
    /\ (pc = "progression_returned" /\ requested >= 1) => Len(progression) = requested

\* C21: for every requested length >= 1 and every context the progression
\* generate_progression returns starts with I and holds at least `length`
\* chord symbols; so in a section of M measures, whose progression is asked
\* with length 4M, the slice harmony[4m : 4m+4] of every accompaniment measure
\* m < M holds exactly 4 symbols.
C21_ProgressionCoversTheSection ==
    /\ \A len \in 1..MaxLength :
          \A p \in generate_progression(len, context, random_sample) :
             p[1] = "I" /\ Len(p) >= len
    /\ (pc \in {"right", "left", "section_return"} /\ section_plan.measures >= 1) =>
          /\ harmony[1] = "I"
          /\ Len(harmony) >= section_plan.measures * 4
          /\ \A k \in 0..(section_plan.measures - 1) :
                Len(Slice(harmony, k * 4, k * 4 + 4)) = 4

\* The left-hand loop is at the last measure of a section of five measures or
\* more, whose progression is longer than requested
C21_Witness ==
    /\ pc = "left"
    /\ m >= 4
    /\ m = section_plan.measures - 1
    /\ Len(harmony) > section_plan.measures * 4
    /\ Len(Slice(harmony, m * 4, m * 4 + 4)) = 4

\* The chords the rule-table entry of `chord` lists with a probability above 0
ListedSuccessors(chord) ==
    IF chord \notin DOMAIN progression_rules THEN {}
    ELSE {progression_rules[chord][k].chord :
            k \in {j \in 1..Len(progression_rules[chord]) :
                      progression_rules[chord][j].prob > 0}}

\* The lists an iteration leaves when it splices a cadence that fits
CadenceSplices(prog, i, len, ctx) ==
    IF is_cadence_point(i, len)
       THEN {prog \o Tail1(select_cadence(ctx)[k]) :
               k \in {j \in 1..Len(select_cadence(ctx)) :
                         Len(select_cadence(ctx)[j]) <= len - i}}
       ELSE {}

\* C22: every chord symbol of a progression that generate_progression builds
\* and returns is a key of the progression-rule table, and every iteration
\* that does not splice a cadence appends one chord that the rule-table entry
\* of the chord before it lists with a probability above 0.
C22_ChordsFollowTheRuleTable ==
    [][pc' \in {"generate_progression", "progression_returned"} =>
          /\ \A k \in 1..Len(progression') : progression'[k] \in DOMAIN progression_rules
          /\ (pc = "generate_progression" /\ position' = position + 1
               /\ progression' \notin CadenceSplices(progression, position, requested, context)) =>
                /\ Len(progression') = Len(progression) + 1
                /\ SubSeq(progression', 1, Len(progression)) = progression
                /\ Last(progression') \in ListedSuccessors(Last(progression))]_vars

\* A returned progression with a spliced cadence and with vii, which no
\* cadence of _select_cadence holds: the rule path appended it
C22_Witness ==
    /\ pc = "progression_returned"
    /\ Len(progression) > requested
    /\ \E k \in 2..Len(progression) :
          /\ progression[k] = "vii"
          /\ progression[k - 1] \in {"ii", "IV"}

\* C23: when the queried state has no recorded transitions and its last pitch
\* p lies in [48,84], the pitch r that the contextual fallback returns is
\* within 7 semitones of p and within [48,84], is p itself or a pitch of the
\* scale of the current key, is not below p when the recent pitches ascend
\* and not above p when they descend.
C23_FallbackStaysNearInScaleInRange ==
    (/\ pc = "generate_next_pitch"
     /\ query \notin DOMAIN markov_model.transitions
     /\ Last(query) \in PitchLow..PitchHigh)
    => /\ result.exc = "none"
       /\ Abs(result.value - Last(query)) <= 7
       /\ result.value \in PitchLow..PitchHigh
       /\ \/ result.value = Last(query)
          \/ (result.value % 12) \in ScaleMidi(context.current_key)
       /\ get_pitch_tendency(context) = "ascending" => result.value >= Last(query)
       /\ get_pitch_tendency(context) = "descending" => result.value <= Last(query)

\* The fallback was asked at the top of the range by a trained model while
\* the recent pitches ascend, and repeated the pitch
C23_Witness ==
    /\ pc = "generate_next_pitch"
    /\ trained # EmptyBag
    /\ query \notin DOMAIN markov_model.transitions
    /\ Last(query) = PitchHigh
    /\ get_pitch_tendency(context) = "ascending"
    /\ result.value = PitchHigh

\* The weight of a candidate as stated, in 1/100: the count, times 1.5 in
\* the scale, times 1.2 for a leap of more than 4 semitones under a tension
\* above 0.7, times 1.3 for a step of at most 2 semitones under a tension
\* below 0.3
StatedWeight(pitch, count, ctx) ==
    LET dist == Abs(pitch - Last(ctx.recent_pitches))
        scale_factor == IF (pitch % 12) \in ScaleMidi(ctx.current_key) THEN 15 ELSE 10
        tension_factor == IF ctx.tension_level > 7 /\ dist > 4 THEN 12
                          ELSE IF ctx.tension_level < 3 /\ dist <= 2 THEN 13
                          ELSE 10
    IN count * scale_factor * tension_factor

\* C24: for a state present in the table the sampling weight of each recorded
\* candidate is its count, times 1.5 if its pitch class is in the scale, times
\* 1.2 if the tension is above 0.7 and it lies more than 4 semitones from the
\* last pitch, times 1.3 if the tension is below 0.3 and it lies within 2
\* semitones of the last pitch; from 0.3 to 0.7 no tension factor is applied.
C24_WeightsFollowTheTensionBands ==
    (/\ pc = "generate_next_pitch"
     /\ query \in DOMAIN markov_model.transitions
     /\ Len(context.recent_pitches) > 0)
    => \E adjusted \in {adjust_pitch_probabilities(markov_model.transitions[query], context)} :
          /\ adjusted.exc = "none"
          /\ \A p \in DOMAIN adjusted.value :
                adjusted.value[p] = StatedWeight(p, markov_model.transitions[query][p], context)

\* The pitch classes of the root, the third and the fifth of a chord symbol:
\* those of the chord in root position
ChordTones(chord_symbol, ctx) ==
    [k \in 1..3 |-> realize_harmony(chord_symbol, ctx, 0).pitches[k] % 12]

\* C25: for every chord symbol of an energetic section the Alberti bass
\* emits four sixteenth notes on the root, the third, the fifth and the third
\* of the chord, in this order, whatever inversion realize_harmony drew.
C25_AlbertiIsRootThirdFifthThird ==
    (pc \in {"left", "section_return"} /\ section_plan.character = "energetic") =>
       \A n \in 1..Len(left_measures) :
          \E symbols \in {Slice(harmony, (n - 1) * 4, (n - 1) * 4 + 4)} :
             /\ Len(left_measures[n].pitches) = 4 * Len(symbols)
             /\ \A j \in 1..Len(symbols) :
                   \E tones \in {ChordTones(symbols[j], context)} :
                      /\ \A i \in 1..4 :
                            left_measures[n].quarterLengths[4 * (j - 1) + i] = 16
                      /\ [i \in 1..4 |-> left_measures[n].pitches[4 * (j - 1) + i][1] % 12]
                            = <<tones[1], tones[2], tones[3], tones[2]>>

\* C26: every accompaniment measure realizes its 4 chord symbols at one chord
\* symbol per beat: whatever the style (Alberti bass, sustained chords,
\* tremolo, standard), the durations of the elements of a left-hand measure
\* sum to 4 quarter beats.
C26_AccompanimentFillsFourBeats ==
    pc \in {"left", "section_return"} =>
       \A n \in 1..Len(left_measures) :
          /\ Len(Slice(harmony, (n - 1) * 4, (n - 1) * 4 + 4)) = 4
          /\ SumOver(left_measures[n].quarterLengths,
                     1..Len(left_measures[n].quarterLengths)) = 4 * 64

\* C27: every melody measure generated by the Markov path fills one measure
\* of 4 beats: the durations of the notes _generate_markov_melody returns for
\* a measure sum to 4 quarter beats.
C27_MarkovMeasureFillsFourBeats ==
    [][(RightMarkov /\ pc' # "raised") =>
          SumOver(QuarterLengths(melody_notes'), 1..Len(melody_notes')) = 4 * 64]_vars

\* A lyrical section, whose melody is always the Markov melody, got a measure
\* of four notes
C27_Witness ==
    /\ pc \in {"right", "left"}
    /\ section_plan.character = "lyrical"
    /\ Len(melody_notes) = 4
    /\ SumOver(QuarterLengths(melody_notes), 1..Len(melody_notes)) = 4 * 64

\* The last n entries of s, all of s when it has fewer
LastEntries(s, n) == IF Len(s) > n THEN SubSeq(s, Len(s) - n + 1, Len(s)) ELSE s

\* C28: after any sequence of motif realizations and Markov melody
\* generations recent_pitches holds at most 8 entries and equals the last
\* min(8, n) of the n melody pitches emitted so far, in emission order: each
\* melody measure pushes its pitches in order, the oldest entries drop out
\* first, and no other step touches the history, which is empty at first.
C28_HistoryIsLastEightPitches ==
    [][/\ Len(context'.recent_pitches) <= DequeMaxLen
       /\ (pc = "idle" /\ total_measures = 0) => context.recent_pitches = <<>>
       /\ context'.recent_pitches =
             IF pc = "right"
                THEN LastEntries(context.recent_pitches \o
                                    [k \in 1..Len(melody_notes') |-> melody_notes'[k].pitch],
                                 DequeMaxLen)
                ELSE context.recent_pitches]_vars

\* The third melody measure of a composition or a later one was generated
\* by the Markov path: more than 8 pitches were emitted, and the history ends
\* with the four of the last measure
C28_Witness ==
    /\ pc \in {"right", "left"}
    /\ current_measure + Len(right_measures) >= 3
    /\ Len(melody_notes) = 4
    /\ Len(context.recent_pitches) = DequeMaxLen
    /\ SubSeq(context.recent_pitches, 5, 8) = [k \in 1..4 |-> melody_notes[k].pitch]
    /\ context.recent_pitches[1] # context.recent_pitches[8]

\* C29: every MotivicCell reached from one of the four seed motifs of
\* create_primary_motif by a sequence of the seven development operations
\* has as many rhythms as intervals, and at least one, so its realization
\* emits exactly one note per interval and never an empty measure.
\* The cells are realized up to MaxRealized intervals: the cells that
\* _generate_section realizes, one development of a seed, have 21 at most.
C29_DevelopedCellsAreNeverEmpty ==
    (pc = "develop_motif" /\ primary_motif \in PrimaryPatterns) =>
       /\ Len(result.value.intervals) = Len(result.value.rhythm)
       /\ Len(result.value.intervals) >= 1
       /\ Len(result.value.intervals) <= MaxRealized =>
             Len(realize_motif(result.value, context).notes) = Len(result.value.intervals)

\* The seed of three intervals was fragmented to a single interval, and
\* fragment was applied to that cell again
C29_Witness ==
    /\ pc = "develop_motif"
    /\ primary_motif \in PrimaryPatterns
    /\ query = <<"fragment", "fragment">>
    /\ Len(result.value.intervals) = 1
    /\ Len(realize_motif(result.value, context).notes) = 1

\* C30: compose never changes MusicalContext.current_key: in every state of a
\* composition the current key is C major, whatever key relation (I, V,
\* I->V, various, V/I) the plan gives the section; the head of a section
\* writes only section_type, tension_level, dynamic_level and
\* harmonic_rhythm, a melody measure only the pitch history, and no other
\* step writes the context.
C30_ComposeKeepsTheKey ==
    [][/\ context.current_key = "C"
       /\ context'.current_key = "C"
       /\ pc = "compose" =>
             [context' EXCEPT !.section_type = context.section_type,
                              !.tension_level = context.tension_level,
                              !.dynamic_level = context.dynamic_level,
                              !.harmonic_rhythm = context.harmonic_rhythm] = context
       /\ pc = "right" =>
             [context' EXCEPT !.recent_pitches = context.recent_pitches] = context
       /\ pc \notin {"compose", "right"} => context' = context]_vars

\* The melody and an accompaniment measure of a section that the plan puts
\* in another key than I were generated, and the context is still in C
C30_Witness ==
    /\ pc \in {"left", "section_return"}
    /\ section_plan.key \in {"V", "I->V", "various", "V/I"}
    /\ Len(right_measures) >= 1
    /\ Len(left_measures) >= 1
    /\ context.section_type = section_plan.parent_section
    /\ context.current_key = "C"
====
